---- MODULE Spec2Model ----
(***************************************************************************)
(* Model of src/services/geminiService.ts: the tolerant JSON extraction,   *)
(* repair, parsing, normalisation and validation pipeline behind           *)
(* generateLifeAnalysis.                                                   *)
(*                                                                         *)
(* Texts are sequences of one-character strings, indexed from 1 (the       *)
(* source indexes from 0; index 0 here is the source's -1, "not found").   *)
(***************************************************************************)
EXTENDS Integers, Sequences, FiniteSets, TLC

VARIABLES
  content,     \* the text the operation under study is applied to
  pc,          \* position of the running operation
  i,           \* findBalancedJSON: loop index
  stack,       \* findBalancedJSON: stack of opened brackets
  inString,    \* findBalancedJSON: inside a string literal
  stringChar,  \* findBalancedJSON: the quote that opened the literal
  escaped,     \* findBalancedJSON: previous character was a backslash
  block,       \* findBalancedJSON: the result, [found, text, from, to]
  once,        \* removeTrailingCommas applied once
  twice,       \* removeTrailingCommas applied twice
  ran,         \* safeParseModelJson: the strategies run so far, in order
  tried,       \* safeParseModelJson: the texts handed to JSON.parse, in order
  parsedData,  \* generateLifeAnalysis: data, the value safeParseModelJson returned
  normalized,  \* generateLifeAnalysis: the value normalizeParsedData returned
  valid,       \* what validateLifeDestinyData returned
  returned,    \* generateLifeAnalysis: the result it resolved with
  error,       \* generateLifeAnalysis: the message of the Error it rejected with
  console      \* what was written with console.error

vars == <<content, pc, i, stack, inString, stringChar, escaped, block, once, twice,
          ran, tried, parsedData, normalized, valid, returned, error, console>>

scanVars == <<i, stack, inString, stringChar, escaped, block>>
repairVars == <<once, twice>>
parseVars == <<ran, tried>>
pipeVars == <<parsedData, normalized, valid, returned, error, console>>

(***************************************************************************)
(* Bounds of the model.                                                    *)
(***************************************************************************)
MaxScanLen == 5
MaxRepairLen == 4
MaxTextLen == 4

(***************************************************************************)
(* Text helpers.                                                           *)
(***************************************************************************)
Min(a, b) == IF a <= b THEN a ELSE b
Max(a, b) == IF a >= b THEN a ELSE b

\* s.indexOf(c) for a one-character c: the first index holding c, 0 when none
IndexOf(s, c) ==
  IF \E k \in 1..Len(s) : s[k] = c
  THEN CHOOSE k \in 1..Len(s) : s[k] = c /\ \A j \in 1..(k - 1) : s[j] # c
  ELSE 0

\* s.lastIndexOf(c): the last index holding c, 0 when none
LastIndexOf(s, c) ==
  IF \E k \in 1..Len(s) : s[k] = c
  THEN CHOOSE k \in 1..Len(s) : s[k] = c /\ \A j \in (k + 1)..Len(s) : s[j] # c
  ELSE 0

\* s.slice(0, n)
Slice0(s, n) == SubSeq(s, 1, Min(Len(s), n))

\* all texts over alphabet A of length at most n
TextsUpTo(A, n) == UNION {[1..k -> A] : k \in 0..n}

\* \s of the source's regular expressions and of String.trim, over the
\* characters the model uses
IsSpace(c) == c \in {" ", "\n", "\t"}

(***************************************************************************)
(* findBalancedJSON (lines 48-99).                                         *)
(***************************************************************************)
NoBlock == [found |-> FALSE, text |-> <<>>, from |-> 0, to |-> 0]

\* a variant that looks for an object before it looks for an array
StartIdx_ObjectFirst(s) ==
  IF IndexOf(s, "{") # 0 THEN IndexOf(s, "{") ELSE IndexOf(s, "[")

\* lines 50-56
StartIdx(s) ==
  LET idxObj == IndexOf(s, "{")
      idxArr == IndexOf(s, "[")
  IN IF idxObj = 0 THEN idxArr
     ELSE IF idxArr = 0 THEN idxObj
     ELSE Min(idxObj, idxArr)

\* lines 59-62; found and to are the return of line 93
ScanInit == [stack |-> <<>>, inString |-> FALSE, stringChar |-> "",
             escaped |-> FALSE, found |-> FALSE, to |-> 0]

\* stack.pop() (line 90): popping an empty stack leaves it empty
Pop(st) == IF Len(st) = 0 THEN st ELSE SubSeq(st, 1, Len(st) - 1)

\* lines 89-95: a closing bracket pops whatever is on top of the stack
CloseBracket(st, ch) == Pop(st)

\* a variant whose bracket handling does not look at inString
ScanStep_BracketsInLiteral(sc, ch) ==
  IF ch = "{" \/ ch = "["
  THEN [sc EXCEPT !.stack = Append(sc.stack, ch)]
  ELSE IF ch = "}" \/ ch = "]"
       THEN LET popped == CloseBracket(sc.stack, ch)
            IN [sc EXCEPT !.stack = popped, !.found = (Len(popped) = 0)]
  ELSE IF sc.inString
  THEN IF sc.escaped THEN [sc EXCEPT !.escaped = FALSE]
       ELSE IF ch = "\\" THEN [sc EXCEPT !.escaped = TRUE]
       ELSE IF ch = sc.stringChar
            THEN [sc EXCEPT !.inString = FALSE, !.stringChar = ""]
            ELSE sc
  ELSE IF ch = "\"" \/ ch = "'"
       THEN [sc EXCEPT !.inString = TRUE, !.stringChar = ch]
       ELSE sc

\* one iteration of the loop, lines 65-96; found is the return of line 93
ScanStep(sc, ch) ==
  IF sc.inString
  THEN IF sc.escaped THEN [sc EXCEPT !.escaped = FALSE]
       ELSE IF ch = "\\" THEN [sc EXCEPT !.escaped = TRUE]
       ELSE IF ch = sc.stringChar
            THEN [sc EXCEPT !.inString = FALSE, !.stringChar = ""]
            ELSE sc
  ELSE IF ch = "\"" \/ ch = "'"
       THEN [sc EXCEPT !.inString = TRUE, !.stringChar = ch]
       ELSE IF ch = "{" \/ ch = "["
            THEN [sc EXCEPT !.stack = Append(sc.stack, ch)]
            ELSE IF ch = "}" \/ ch = "]"
                 THEN LET popped == CloseBracket(sc.stack, ch)
                      IN [sc EXCEPT !.stack = popped, !.found = (Len(popped) = 0)]
                 ELSE sc

\* the iteration at index k; nothing runs after the return of line 93
ScanStepAt(sc, s, k) ==
  IF sc.found THEN sc
  ELSE IF ScanStep(sc, s[k]).found THEN [ScanStep(sc, s[k]) EXCEPT !.to = k]
  ELSE ScanStep(sc, s[k])

\* the iterations at lo..hi in order, from the locals sc (the range is halved
\* only to keep the evaluation shallow)
RECURSIVE ScanRange(_, _, _, _)
ScanRange(s, lo, hi, sc) ==
  IF lo > hi THEN sc
  ELSE IF lo = hi THEN ScanStepAt(sc, s, lo)
  ELSE LET left == ScanRange(s, lo, (lo + hi) \div 2, sc)
       IN IF left.found THEN left
          ELSE ScanRange(s, ((lo + hi) \div 2) + 1, hi, left)

\* lines 64-98
ScanFrom(s, from) ==
  LET end == ScanRange(s, from, Len(s), ScanInit)
  IN IF end.found
     THEN [found |-> TRUE, text |-> SubSeq(s, from, end.to), from |-> from, to |-> end.to]
     ELSE NoBlock

\* the function as a whole; found = FALSE is the source's null
findBalancedJSON(s) ==
  IF Len(s) = 0 THEN NoBlock
  ELSE IF StartIdx(s) = 0 THEN NoBlock
  ELSE ScanFrom(s, StartIdx(s))

(***************************************************************************)
(* removeTrailingCommas (lines 104-108).                                   *)
(***************************************************************************)
\* index of the first non-space character at or after k (Len(s)+1 when none)
SkipSpace(s, k) ==
  IF \A j \in k..Len(s) : IsSpace(s[j]) THEN Max(k, Len(s) + 1)
  ELSE CHOOSE j \in k..Len(s) : ~IsSpace(s[j]) /\ \A m \in k..(j - 1) : IsSpace(s[m])

\* the first index at or after k holding c, 0 when none
IndexFrom(s, c, k) ==
  IF \E j \in k..Len(s) : s[j] = c
  THEN CHOOSE j \in k..Len(s) : s[j] = c /\ \A m \in k..(j - 1) : s[m] # c
  ELSE 0

\* whether /,\s*c/ matches at index k
CommaMatchAt(s, k, c) ==
  /\ s[k] = ","
  /\ SkipSpace(s, k + 1) <= Len(s)
  /\ s[SkipSpace(s, k + 1)] = c

\* s.replace(/,\s*c/g, c) from index k on: leftmost matches, left to right,
\* not overlapping; a match can only begin at a comma
RECURSIVE ReplaceCommaBefore(_, _, _)
ReplaceCommaBefore(s, k, c) ==
  IF IndexFrom(s, ",", k) = 0 THEN SubSeq(s, k, Len(s))
  ELSE IF CommaMatchAt(s, IndexFrom(s, ",", k), c)
       THEN SubSeq(s, k, IndexFrom(s, ",", k) - 1) \o <<c>>
            \o ReplaceCommaBefore(s, SkipSpace(s, IndexFrom(s, ",", k) + 1) + 1, c)
       ELSE SubSeq(s, k, IndexFrom(s, ",", k))
            \o ReplaceCommaBefore(s, IndexFrom(s, ",", k) + 1, c)

removeTrailingCommas(s) ==
  ReplaceCommaBefore(ReplaceCommaBefore(s, 1, "}"), 1, "]")

(***************************************************************************)
(* JavaScript values.  Every value is a record of one shape: t is the      *)
(* type tag, n the number (or 1/0 for true/false, the sign for an          *)
(* infinity), s the text of a string, keys/kids the keys and values of an  *)
(* object in insertion order, kids the elements of an array.               *)
(***************************************************************************)
V(t, n, s, keys, kids) == [t |-> t, n |-> n, s |-> s, keys |-> keys, kids |-> kids]
JUndef == V("undef", 0, <<>>, <<>>, <<>>)
JNull == V("null", 0, <<>>, <<>>, <<>>)
JBool(b) == V("bool", IF b THEN 1 ELSE 0, <<>>, <<>>, <<>>)
JNum(n) == V("num", n, <<>>, <<>>, <<>>)
JInf(sign) == V("inf", sign, <<>>, <<>>, <<>>)
JNaN == V("nan", 0, <<>>, <<>>, <<>>)
JStr(s) == V("str", 0, s, <<>>, <<>>)
JArr(kids) == V("arr", 0, <<>>, <<>>, kids)
JObj(keys, kids) == V("obj", 0, <<>>, keys, kids)

\* typeof v === 'object' (null included)
IsObjectType(v) == v.t \in {"obj", "arr", "null"}
\* Array.isArray(v)
IsArray(v) == v.t = "arr"
\* ToBoolean(v)
Truthy(v) ==
  CASE v.t \in {"undef", "null", "nan"} -> FALSE
    [] v.t = "bool" -> v.n = 1
    [] v.t = "num" -> v.n # 0
    [] v.t = "str" -> Len(v.s) > 0
    [] OTHER -> TRUE
\* a || b
Or(a, b) == IF Truthy(a) THEN a ELSE b
\* a && b
And(a, b) == IF Truthy(a) THEN b ELSE a

KeyIndex(keys, k) ==
  IF \E j \in 1..Len(keys) : keys[j] = k
  THEN CHOOSE j \in 1..Len(keys) : keys[j] = k
  ELSE 0

\* v[k] for a key k that is neither an index nor "length": bound only in
\* objects, undefined in arrays, strings, numbers and booleans
Get(v, k) ==
  IF v.t = "obj" /\ KeyIndex(v.keys, k) # 0
  THEN v.kids[KeyIndex(v.keys, k)]
  ELSE JUndef

\* o[k] = x on an object: an existing key keeps its place
Set(o, k, x) ==
  IF KeyIndex(o.keys, k) # 0
  THEN [o EXCEPT !.kids[KeyIndex(o.keys, k)] = x]
  ELSE [o EXCEPT !.keys = Append(o.keys, k), !.kids = Append(o.kids, x)]

DigitChars == <<"0", "1", "2", "3", "4", "5", "6", "7", "8", "9">>
Digits == {DigitChars[d] : d \in 1..10}
DigitVal(c) == (CHOOSE d \in 1..10 : DigitChars[d] = c) - 1

\* String(n) for an integer n
RECURSIVE NatText(_)
NatText(n) == IF n < 10 THEN <<DigitChars[n + 1]>>
              ELSE NatText(n \div 10) \o <<DigitChars[(n % 10) + 1]>>
IntText(n) == IF n < 0 THEN <<"-">> \o NatText(0 - n) ELSE NatText(n)

\* { ...v }: the own enumerable properties of v as a new object
Spread(v) ==
  CASE v.t = "obj" -> v
    [] v.t = "arr" -> JObj([j \in 1..Len(v.kids) |-> NatText(j - 1)], v.kids)
    [] v.t = "str" -> JObj([j \in 1..Len(v.s) |-> NatText(j - 1)],
                           [j \in 1..Len(v.s) |-> JStr(<<v.s[j]>>)])
    [] OTHER -> JObj(<<>>, <<>>)

\* Object.keys(v || {})
ObjectKeys(v) == Spread(v).keys

(***************************************************************************)
(* JSON.parse.  The texts of the model hold integers only (no fraction,    *)
(* no exponent).                                                           *)
(***************************************************************************)
JsonWS(c) == c \in {" ", "\t", "\n", "\r"}

\* the first index at or after k that holds no white space, Len(s)+1 when none
SkipJsonWS(s, k) ==
  IF \A j \in k..Len(s) : JsonWS(s[j]) THEN Max(k, Len(s) + 1)
  ELSE CHOOSE j \in k..Len(s) : ~JsonWS(s[j]) /\ \A m \in k..(j - 1) : JsonWS(s[m])

HasAt(s, k, w) == k + Len(w) - 1 <= Len(s) /\ SubSeq(s, k, k + Len(w) - 1) = w

PFail == [ok |-> FALSE, v |-> JUndef, pos |-> 0]
POk(v, pos) == [ok |-> TRUE, v |-> v, pos |-> pos]

HexChars == Digits \cup {"a", "b", "c", "d", "e", "f", "A", "B", "C", "D", "E", "F"}

\* the character an escape \c stands for; "" when \c is no escape
Unescape(c) ==
  CASE c = "\"" -> "\""
    [] c = "\\" -> "\\"
    [] c = "/" -> "/"
    [] c = "n" -> "\n"
    [] c = "t" -> "\t"
    [] c = "r" -> "\r"
    [] c = "f" -> "\f"
    [] c = "b" -> "\\b"
    [] OTHER -> ""

\* the first index at or after k holding a character of the set cs, 0 when none
IndexOfAny(s, cs, k) ==
  IF \E j \in k..Len(s) : s[j] \in cs
  THEN CHOOSE j \in k..Len(s) : s[j] \in cs /\ \A m \in k..(j - 1) : s[m] \notin cs
  ELSE 0

\* the characters of a string literal from index k (after the opening quote),
\* e being the next index that holds a quote, a backslash or a control
\* character; plain characters are taken a run at a time
RECURSIVE StrBody(_, _, _), StrRun(_, _, _)
StrRun(s, e, run) ==
  IF s[e] = "\"" THEN POk(JStr(run), e + 1)
  ELSE IF s[e] # "\\" \/ e + 1 > Len(s) THEN PFail
  ELSE IF s[e + 1] = "u"
       THEN IF e + 5 <= Len(s) /\ \A j \in (e + 2)..(e + 5) : s[j] \in HexChars
            THEN StrBody(s, e + 6,
                   Append(run, "\\u" \o s[e + 2] \o s[e + 3] \o s[e + 4] \o s[e + 5]))
            ELSE PFail
  ELSE IF Unescape(s[e + 1]) = "" THEN PFail
  ELSE StrBody(s, e + 2, Append(run, Unescape(s[e + 1])))

StrBody(s, k, acc) ==
  LET e == IndexOfAny(s, {"\"", "\\", "\n", "\t", "\r", "\f"}, k)
  IN IF e = 0 THEN PFail ELSE StrRun(s, e, acc \o SubSeq(s, k, e - 1))

\* the digits from index k on: [n, pos]
RECURSIVE DigitRun(_, _, _)
DigitRun(s, k, n) ==
  IF k <= Len(s) /\ s[k] \in Digits
  THEN DigitRun(s, k + 1, 10 * n + DigitVal(s[k]))
  ELSE [n |-> n, pos |-> k]

\* the number whose digits r were read, negated when sign = -1
Signed(sign, r) == POk(JNum(sign * r.n), r.pos)

\* -? (0 | [1-9][0-9]*)
ParseNumber(s, k) ==
  LET d == IF s[k] = "-" THEN k + 1 ELSE k
  IN IF d > Len(s) \/ s[d] \notin Digits THEN PFail
     ELSE IF s[d] = "0" THEN POk(JNum(0), d + 1)
     ELSE Signed(IF s[k] = "-" THEN 0 - 1 ELSE 1, DigitRun(s, d, 0))

W_true == <<"t", "r", "u", "e">>
W_false == <<"f", "a", "l", "s", "e">>
W_null == <<"n", "u", "l", "l">>

\* a recursive-descent reading of the JSON grammar, each operator taking
\* what was read so far; a later duplicate of a key replaces the value and
\* keeps the first place
RECURSIVE ParseValue(_, _), ValueAt(_, _), ObjectAt(_, _), ArrayAt(_, _),
          ParseElems(_, _, _), ElemRead(_, _, _), ElemNext(_, _, _),
          ParseMembers(_, _, _), MemberKey(_, _, _), MemberColon(_, _, _, _),
          MemberRead(_, _, _, _), MemberNext(_, _, _)
ParseValue(s, k0) == ValueAt(s, SkipJsonWS(s, k0))

\* the value that begins at index k, which holds no white space
ValueAt(s, k) ==
  IF k > Len(s) THEN PFail
  ELSE IF s[k] = "{" THEN ObjectAt(s, SkipJsonWS(s, k + 1))
  ELSE IF s[k] = "[" THEN ArrayAt(s, SkipJsonWS(s, k + 1))
  ELSE IF s[k] = "\"" THEN StrBody(s, k + 1, <<>>)
  ELSE IF s[k] = "-" \/ s[k] \in Digits THEN ParseNumber(s, k)
  ELSE IF HasAt(s, k, W_true) THEN POk(JBool(TRUE), k + 4)
  ELSE IF HasAt(s, k, W_false) THEN POk(JBool(FALSE), k + 5)
  ELSE IF HasAt(s, k, W_null) THEN POk(JNull, k + 4)
  ELSE PFail

\* after {, at the first index k that holds no white space
ObjectAt(s, k) ==
  IF k <= Len(s) /\ s[k] = "}" THEN POk(JObj(<<>>, <<>>), k + 1)
  ELSE ParseMembers(s, k, JObj(<<>>, <<>>))

\* after [, at the first index k that holds no white space
ArrayAt(s, k) ==
  IF k <= Len(s) /\ s[k] = "]" THEN POk(JArr(<<>>), k + 1)
  ELSE ParseElems(s, k, <<>>)

ParseElems(s, k, acc) == ElemRead(s, acc, ParseValue(s, k))
ElemRead(s, acc, r) ==
  IF ~r.ok THEN PFail ELSE ElemNext(s, Append(acc, r.v), SkipJsonWS(s, r.pos))
ElemNext(s, acc, e) ==
  IF e > Len(s) THEN PFail
  ELSE IF s[e] = "," THEN ParseElems(s, e + 1, acc)
  ELSE IF s[e] = "]" THEN POk(JArr(acc), e + 1)
  ELSE PFail

ParseMembers(s, k0, obj) == MemberKey(s, SkipJsonWS(s, k0), obj)
MemberKey(s, k, obj) ==
  IF k <= Len(s) /\ s[k] = "\"" THEN MemberColon(s, obj, StrBody(s, k + 1, <<>>), 0)
  ELSE PFail
\* c = 0: the key was just read; else c is the index after it that holds no
\* white space
MemberColon(s, obj, key, c) ==
  IF ~key.ok THEN PFail
  ELSE IF c = 0 THEN MemberColon(s, obj, key, SkipJsonWS(s, key.pos))
  ELSE IF c <= Len(s) /\ s[c] = ":"
       THEN MemberRead(s, obj, key.v.s, ParseValue(s, c + 1))
       ELSE PFail
MemberRead(s, obj, name, r) ==
  IF ~r.ok THEN PFail
  ELSE MemberNext(s, Set(obj, name, r.v), SkipJsonWS(s, r.pos))
MemberNext(s, obj, e) ==
  IF e > Len(s) THEN PFail
  ELSE IF s[e] = "," THEN ParseMembers(s, e + 1, obj)
  ELSE IF s[e] = "}" THEN POk(obj, e + 1)
  ELSE PFail

\* the text is one value and white space
WholeText(s, r) ==
  IF r.ok /\ SkipJsonWS(s, r.pos) > Len(s)
  THEN [ok |-> TRUE, v |-> r.v]
  ELSE [ok |-> FALSE, v |-> JUndef]

\* JSON.parse(s): ok = FALSE is the SyntaxError
JSONparse(s) == WholeText(s, ParseValue(s, 1))

(***************************************************************************)
(* JSON.stringify.                                                         *)
(***************************************************************************)
EscapeChar(c) ==
  CASE c = "\"" -> <<"\\", "\"">>
    [] c = "\\" -> <<"\\", "\\">>
    [] c = "\n" -> <<"\\", "n">>
    [] c = "\t" -> <<"\\", "t">>
    [] c = "\r" -> <<"\\", "r">>
    [] c = "\f" -> <<"\\", "f">>
    [] OTHER -> <<c>>

\* the texts ss[lo..hi] one after the other
RECURSIVE FlattenRange(_, _, _)
FlattenRange(ss, lo, hi) ==
  IF lo > hi THEN <<>>
  ELSE IF lo = hi THEN ss[lo]
  ELSE FlattenRange(ss, lo, (lo + hi) \div 2)
       \o FlattenRange(ss, ((lo + hi) \div 2) + 1, hi)
Flatten(ss) == FlattenRange(ss, 1, Len(ss))

Quote(s) == <<"\"">> \o Flatten([j \in 1..Len(s) |-> EscapeChar(s[j])]) \o <<"\"">>

\* the parts joined with commas
JoinComma(ss) ==
  Flatten([j \in 1..Len(ss) |-> IF j = 1 THEN ss[j] ELSE <<",">> \o ss[j]])

\* the members of an object whose value is not undefined
RECURSIVE DefinedMembers(_, _)
DefinedMembers(o, j) ==
  IF j > Len(o.keys) THEN <<>>
  ELSE IF o.kids[j].t = "undef" THEN DefinedMembers(o, j + 1)
  ELSE <<j>> \o DefinedMembers(o, j + 1)

RECURSIVE Stringify(_)
Stringify(v) ==
  CASE v.t = "num" -> IntText(v.n)
    [] v.t = "bool" -> IF v.n = 1 THEN W_true ELSE W_false
    [] v.t = "str" -> Quote(v.s)
    [] v.t = "arr" ->
         <<"[">> \o JoinComma([j \in 1..Len(v.kids) |-> Stringify(v.kids[j])]) \o <<"]">>
    [] v.t = "obj" ->
         LET m == DefinedMembers(v, 1)
         IN <<"{">> \o JoinComma([j \in 1..Len(m) |->
                         Quote(v.keys[m[j]]) \o <<":">> \o Stringify(v.kids[m[j]])])
                    \o <<"}">>
    [] OTHER -> W_null

(***************************************************************************)
(* Number(v).                                                              *)
(***************************************************************************)
\* String.prototype.trim
Trim(s) ==
  IF \A j \in 1..Len(s) : IsSpace(s[j]) THEN <<>>
  ELSE SubSeq(s, SkipSpace(s, 1),
              CHOOSE j \in 1..Len(s) :
                ~IsSpace(s[j]) /\ \A m \in (j + 1)..Len(s) : IsSpace(s[m]))

W_Infinity == <<"I", "n", "f", "i", "n", "i", "t", "y">>

\* Number(text): decimal digits with an optional sign, Infinity with an
\* optional sign, the empty text; anything else is NaN
TextToNumber(s0) ==
  LET s == Trim(s0)
      signed == Len(s) > 0 /\ s[1] \in {"-", "+"}
      body == IF signed THEN Tail(s) ELSE s
      sign == IF signed /\ s[1] = "-" THEN 0 - 1 ELSE 1
  IN IF Len(s) = 0 THEN JNum(0)
     ELSE IF body = W_Infinity THEN JInf(sign)
     ELSE IF Len(body) > 0 /\ \A j \in 1..Len(body) : body[j] \in Digits
          THEN JNum(sign * DigitRun(body, 1, 0).n)
     ELSE JNaN

\* Number(v); an array converts through its text: [] is 0, [x] is what x
\* converts to through its own text, anything longer is NaN
RECURSIVE Number(_)
Number(v) ==
  CASE v.t \in {"num", "inf", "nan"} -> v
    [] v.t = "null" -> JNum(0)
    [] v.t = "bool" -> JNum(v.n)
    [] v.t = "str" -> TextToNumber(v.s)
    [] v.t = "arr" ->
         IF Len(v.kids) = 0 THEN JNum(0)
         ELSE IF Len(v.kids) > 1 THEN JNaN
         ELSE IF v.kids[1].t \in {"null", "undef"} THEN JNum(0)
         ELSE IF v.kids[1].t \in {"num", "inf", "nan", "str", "arr"} THEN Number(v.kids[1])
         ELSE JNaN
    [] OTHER -> JNaN

\* Number.isFinite(v)
IsFiniteNumber(v) == v.t = "num"

(***************************************************************************)
(* Property names used by the source.                                      *)
(***************************************************************************)
K_chartData == <<"c", "h", "a", "r", "t", "D", "a", "t", "a">>
K_chartPoints == <<"c", "h", "a", "r", "t", "P", "o", "i", "n", "t", "s">>
K_chart == <<"c", "h", "a", "r", "t">>
K_points == <<"p", "o", "i", "n", "t", "s">>
K_kline == <<"k", "l", "i", "n", "e">>
K_chart_data == <<"c", "h", "a", "r", "t", "_", "d", "a", "t", "a">>
K_chart_points == <<"c", "h", "a", "r", "t", "_", "p", "o", "i", "n", "t", "s">>
K_result == <<"r", "e", "s", "u", "l", "t">>
K_analysis == <<"a", "n", "a", "l", "y", "s", "i", "s">>
K_bazi == <<"b", "a", "z", "i">>
K_age == <<"a", "g", "e">>
K_year == <<"y", "e", "a", "r">>
K_open == <<"o", "p", "e", "n">>
K_close == <<"c", "l", "o", "s", "e">>
K_high == <<"h", "i", "g", "h">>
K_low == <<"l", "o", "w">>
K_score == <<"s", "c", "o", "r", "e">>
K_ganZhi == <<"g", "a", "n", "Z", "h", "i">>
K_yang == <<"y", "a", "n", "g">>
K_reason == <<"r", "e", "a", "s", "o", "n">>

(***************************************************************************)
(* singleQuotesToDouble (lines 113-118).                                   *)
(***************************************************************************)
\* from index k, just after an opening ', the index of the ' that closes
\* /'([^'\\]*(\\.[^'\\]*)*)'/; 0 when the expression does not match here
\* (. matches no line terminator)
RECURSIVE QuoteEnd(_, _)
QuoteEnd(s, k) ==
  LET e == IndexOfAny(s, {"'", "\\"}, k)
  IN IF e = 0 THEN 0
     ELSE IF s[e] = "'" THEN e
     ELSE IF e + 1 <= Len(s) /\ s[e + 1] \notin {"\n", "\r"}
          THEN QuoteEnd(s, e + 2)
          ELSE 0

\* g1.replace(/"/g, '\\"')
EscapeDoubleQuotes(s) ==
  Flatten([j \in 1..Len(s) |-> IF s[j] = "\"" THEN <<"\\", "\"">> ELSE <<s[j]>>])

\* the replacement from index k on: a match can only begin at a '
RECURSIVE ReplaceSingleQuoted(_, _)
ReplaceSingleQuoted(s, k) ==
  LET q == IndexFrom(s, "'", k)
  IN IF q = 0 THEN SubSeq(s, k, Len(s))
     ELSE IF QuoteEnd(s, q + 1) # 0
          THEN SubSeq(s, k, q - 1) \o <<"\"">>
               \o EscapeDoubleQuotes(SubSeq(s, q + 1, QuoteEnd(s, q + 1) - 1))
               \o <<"\"">> \o ReplaceSingleQuoted(s, QuoteEnd(s, q + 1) + 1)
          ELSE SubSeq(s, k, q) \o ReplaceSingleQuoted(s, q + 1)

singleQuotesToDouble(s) == ReplaceSingleQuoted(s, 1)

(***************************************************************************)
(* The candidates of safeParseModelJson (lines 123-194).                   *)
(***************************************************************************)
startMarker == <<"#", "#", "#", "J", "S", "O", "N", "_", "S", "T", "A", "R", "T", "#", "#", "#">>
endMarker == <<"#", "#", "#", "J", "S", "O", "N", "_", "E", "N", "D", "#", "#", "#">>

\* the first index at or after from where w occurs in s, 0 when none
FindFrom(s, w, from) ==
  IF \E k \in from..(Len(s) - Len(w) + 1) : HasAt(s, k, w)
  THEN CHOOSE k \in from..(Len(s) - Len(w) + 1) :
         HasAt(s, k, w) /\ \A j \in from..(k - 1) : ~HasAt(s, j, w)
  ELSE 0

\* s.includes(w)
Includes(s, w) == FindFrom(s, w, 1) # 0

\* s.split(w)[0]: the text before the first w, all of s when w is absent
SplitFirst(s, w) ==
  IF FindFrom(s, w, 1) = 0 THEN s ELSE SubSeq(s, 1, FindFrom(s, w, 1) - 1)

\* s.split(w)[1] for an s that includes w: the text after the first w up to
\* the next w
SplitSecond(s, w) ==
  SplitFirst(SubSeq(s, FindFrom(s, w, 1) + Len(w), Len(s)), w)

NoCandidate == [applies |-> FALSE, text |-> <<>>]
Candidate(text) == [applies |-> TRUE, text |-> text]

\* lines 135-137: between is what lies between the sentinels
MarkerText(between) ==
  IF Len(between) > 0
  THEN Candidate(removeTrailingCommas(Trim(between)))
  ELSE NoCandidate

\* lines 133-137: the text handed to JSON.parse by the marker strategy
MarkerCandidate(c) ==
  IF Includes(c, startMarker) /\ Includes(c, endMarker)
  THEN MarkerText(SplitFirst(SplitSecond(c, startMarker), endMarker))
  ELSE NoCandidate

\* lines 148-149, 164-165, 178-179: the extracted text, when there is one,
\* without its trailing commas
Repaired(found, text) ==
  IF found THEN Candidate(removeTrailingCommas(text)) ELSE NoCandidate

\* lines 147-149
BlockText(b) == Repaired(b.found, b.text)
BlockCandidate(c) == BlockText(findBalancedJSON(c))

\* content.match(/\{[\s\S]*\}/) and content.match(/\[[\s\S]*\]/): from the
\* first opening bracket to the last closing one
GreedyMatch(c, open, close) ==
  IF IndexOf(c, open) # 0 /\ LastIndexOf(c, close) > IndexOf(c, open)
  THEN Candidate(SubSeq(c, IndexOf(c, open), LastIndexOf(c, close)))
  ELSE NoCandidate

\* lines 163-165 and 177-179
GreedyText(m) == Repaired(m.applies, m.text)
GreedyCandidate(c, open, close) == GreedyText(GreedyMatch(c, open, close))

\* lines 154-155, 170-171, 184-185: the second attempt on a candidate
Requoted(attempt) == removeTrailingCommas(singleQuotesToDouble(attempt))

\* what a strategy leaves: r is the result of its last JSON.parse and tried
\* lists the texts it handed to JSON.parse
Outcome(r, texts) == [ok |-> r.ok, v |-> r.v, tried |-> texts]
NoOutcome == [ok |-> FALSE, v |-> JUndef, tried |-> <<>>]

\* lines 153-158: the catch block of the first attempt
SecondAttempt(attempt, attempt2) ==
  Outcome(JSONparse(attempt2), <<attempt, attempt2>>)

\* lines 150-152: r is the result of parsing the attempt
FirstAttempt(attempt, r) ==
  IF r.ok THEN Outcome(r, <<attempt>>)
  ELSE SecondAttempt(attempt, Requoted(attempt))

\* lines 150-159: parse the attempt and, when that fails, its requoted form
TwoAttempts(cand) ==
  IF cand.applies THEN FirstAttempt(cand.text, JSONparse(cand.text))
  ELSE NoOutcome

\* lines 138-142: one attempt
OneAttempt(cand) ==
  IF cand.applies THEN Outcome(JSONparse(cand.text), <<cand.text>>)
  ELSE NoOutcome

\* an order that looks for a balanced block before it looks for the sentinels
StrategyOrder_BlockFirst == <<"s1", "s3", "s2", "s4", "s5">>

\* the order in which the body of safeParseModelJson runs its strategies
StrategyOrder == <<"s1", "s2", "s3", "s4", "s5">>

\* what strategy st does with the text c
RunStrategy(st, c) ==
  CASE st = "s1" -> OneAttempt(Candidate(c))
    [] st = "s2" -> OneAttempt(MarkerCandidate(c))
    [] st = "s3" -> TwoAttempts(BlockCandidate(c))
    [] st = "s4" -> TwoAttempts(GreedyCandidate(c, "{", "}"))
    [] st = "s5" -> TwoAttempts(GreedyCandidate(c, "[", "]"))

(***************************************************************************)
(* normalizeParsedData (lines 203-299).                                    *)
(***************************************************************************)
aliases == <<K_chartData, K_chartPoints, K_chart, K_points, K_kline,
             K_chart_data, K_chart_points>>

\* lines 211-216 and 220-225: the first alias bound in o, undefined when none
RECURSIVE ProbeAliases(_, _)
ProbeAliases(o, j) ==
  IF j > Len(aliases) THEN JUndef
  ELSE IF Get(o, aliases[j]).t # "undef" THEN Get(o, aliases[j])
  ELSE ProbeAliases(o, j + 1)

\* lines 210-227; chart starts as null
ResolveChart(data) ==
  LET top == IF ProbeAliases(data, 1).t # "undef" THEN ProbeAliases(data, 1) ELSE JNull
  IN IF ~Truthy(top)
     THEN IF Truthy(Get(data, K_result)) /\ IsObjectType(Get(data, K_result))
             /\ ProbeAliases(Get(data, K_result), 1).t # "undef"
          THEN ProbeAliases(Get(data, K_result), 1)
          ELSE top
     ELSE top

\* lines 230-246
ParseTextChart(chart) ==
  IF chart.t # "str" THEN chart
  ELSE IF JSONparse(removeTrailingCommas(chart.s)).ok
       THEN JSONparse(removeTrailingCommas(chart.s)).v
  ELSE IF findBalancedJSON(chart.s).found
          /\ JSONparse(removeTrailingCommas(findBalancedJSON(chart.s).text)).ok
       THEN JSONparse(removeTrailingCommas(findBalancedJSON(chart.s).text)).v
  ELSE JNull

\* new Date().getFullYear() at the time of the run
CurrentYear == 2026

\* line 261, 263, 264, 267: if (o.k !== undefined) o.k = Number(o.k) || 0
CoerceOrZero(o, k) ==
  IF Get(o, k).t = "undef" THEN o
  ELSE Set(o, k, Or(Number(Get(o, k)), JNum(0)))

\* line 262
CoerceYear(o) ==
  IF Get(o, K_year).t = "undef" THEN o
  ELSE Set(o, K_year, Or(Number(Get(o, K_year)), JNum(CurrentYear)))

\* lines 265-266: Number(o.k) || o.open || o.close || 0
CoerceLevel(o, k) ==
  IF Get(o, k).t = "undef" THEN o
  ELSE Set(o, k, Or(Or(Or(Number(Get(o, k)), Get(o, K_open)), Get(o, K_close)), JNum(0)))

\* lines 268-270
DefaultGanZhi(o) ==
  IF Get(o, K_ganZhi).t = "undef" /\ Get(o, K_yang).t = "undef"
  THEN Set(o, K_ganZhi, Or(Get(o, K_ganZhi), JStr(<<>>)))
  ELSE o

\* line 271
DefaultReason(o) ==
  Set(o, K_reason,
      Or(Get(o, K_reason), IF Get(o, K_reason).t = "str" THEN Get(o, K_reason) ELSE JStr(<<>>)))

\* lines 251-272: the callback of chart.map
NormalizeItem(item0) ==
  LET item == IF item0.t = "str" /\ JSONparse(item0.s).ok
              THEN JSONparse(item0.s).v ELSE item0
  IN DefaultReason(DefaultGanZhi(
       CoerceOrZero(
         CoerceLevel(
           CoerceLevel(
             CoerceOrZero(
               CoerceOrZero(
                 CoerceYear(
                   CoerceOrZero(Spread(item), K_age)),
                 K_open),
               K_close),
             K_high),
           K_low),
         K_score)))

\* line 281: the separators of bazi.split: the comma, the full-width comma
\* (written "U+FF0C" here) and \s
IsBaziSeparator(c) == c \in {",", "U+FF0C"} \/ IsSpace(c)

\* line 281: split, trim, filter(Boolean): the maximal runs of characters
\* that are not separators
RECURSIVE SplitBazi(_, _, _)
SplitBazi(s, k, cur) ==
  IF k > Len(s) THEN IF Len(cur) > 0 THEN <<JStr(cur)>> ELSE <<>>
  ELSE IF IsBaziSeparator(s[k])
       THEN (IF Len(cur) > 0 THEN <<JStr(cur)>> ELSE <<>>) \o SplitBazi(s, k + 1, <<>>)
       ELSE SplitBazi(s, k + 1, Append(cur, s[k]))

\* lines 277-287; an analysis that is an array has no bazi and is left alone
NormalizeBazi(data) ==
  LET analysis == Get(data, K_analysis)
      bazi == Get(analysis, K_bazi)
  IN IF ~(Truthy(analysis) /\ IsObjectType(analysis)) THEN data
     ELSE IF bazi.t = "str"
          THEN Set(data, K_analysis, Set(analysis, K_bazi, JArr(SplitBazi(bazi.s, 1, <<>>))))
     ELSE IF ~IsArray(bazi) /\ bazi.t # "undef"
          THEN Set(data, K_analysis, Set(analysis, K_bazi, JArr(<<bazi>>)))
     ELSE data

\* lines 290-296
WrapLastResort(data, raw) ==
  LET maybe == Or(Or(Or(Get(raw, K_chart), Get(raw, K_points)), Get(raw, K_kline)),
                  And(Get(raw, K_result),
                      Or(Get(Get(raw, K_result), K_chart), Get(Get(raw, K_result), K_points))))
  IN IF IsArray(Get(data, K_chartData)) \/ ~Truthy(maybe) THEN data
     ELSE IF IsArray(maybe) THEN Set(data, K_chartData, maybe)
     ELSE IF IsObjectType(maybe) THEN Set(data, K_chartData, JArr(<<maybe>>))
     ELSE data

\* lines 249-274
SetChartData(data, chart) ==
  IF IsArray(chart)
  THEN Set(data, K_chartData,
           JArr([j \in 1..Len(chart.kids) |-> NormalizeItem(chart.kids[j])]))
  ELSE data

\* lines 229-298, chart being what lines 210-227 resolved
NormalizeWith(raw, chart) ==
  WrapLastResort(
    NormalizeBazi(SetChartData(Spread(raw), ParseTextChart(chart))),
    raw)

normalizeParsedData(raw) ==
  IF ~Truthy(raw) \/ ~IsObjectType(raw) THEN raw
  ELSE NormalizeWith(raw, ResolveChart(Spread(raw)))

\* what raw holds after the call: lines 283 and 286 assign through
\* data.analysis, the object that the shallow copy of line 206 shares with raw
RawAfter(raw, norm) ==
  IF raw.t = "obj" /\ Get(raw, K_analysis).t = "obj"
  THEN Set(raw, K_analysis, Get(norm, K_analysis))
  ELSE raw

(***************************************************************************)
(* validateLifeDestinyData (lines 34-42).                                  *)
(***************************************************************************)
\* the minimum length of analysis.bazi (line 40)
MinBazi == 4

\* line 36
ValidatedChart(data) == Or(Get(data, K_chartPoints), Get(data, K_chartData))

validateLifeDestinyData(data) ==
  /\ Truthy(data)
  /\ IsArray(ValidatedChart(data)) /\ Len(ValidatedChart(data).kids) # 0
  /\ Truthy(Get(data, K_analysis)) /\ IsObjectType(Get(data, K_analysis))
  /\ IsArray(Get(Get(data, K_analysis), K_bazi))
  /\ Len(Get(Get(data, K_analysis), K_bazi).kids) >= MinBazi

(***************************************************************************)
(* generateLifeAnalysis from the model's reply on (lines 415-458): what it *)
(* resolves with, the messages of its errors and what it logs.             *)
(***************************************************************************)
\* the prefix of the reply quoted in error messages (lines 193 and 443)
RawPrefixLen == 2000
\* the prefix of the reply written to the log (line 435)
LogPrefixLen == 4000
\* the prefix of the normalized value's JSON quoted in the error (line 444)
JsonPrefixLen == 500

NotReturned == [done |-> FALSE, chartData |-> JUndef, analysis |-> JUndef]

\* a message is a sequence of segments: a literal of the source (named by
\* its line) or a piece of text computed at run time
Lit(name) == [kind |-> "lit", text |-> <<name>>]
Raw(text) == [kind |-> "raw", text |-> text]
Json(text) == [kind |-> "json", text |-> text]

\* line 418
EmptyReplyMessage == <<Lit("L418: the model returned no content")>>

\* a message that quotes the whole reply
ParseFailureMessage_Whole(c) ==
  <<Lit("L426: cannot parse the model's JSON (extraction failed): "),
    Lit("L193: cannot parse the model's JSON (all repairs failed), first 2000:"),
    Raw(c)>>

\* line 193, wrapped at line 426
ParseFailureMessage(c) ==
  <<Lit("L426: cannot parse the model's JSON (extraction failed): "),
    Lit("L193: cannot parse the model's JSON (all repairs failed), first 2000:"),
    Raw(Slice0(c, RawPrefixLen))>>

\* lines 441-445
RejectionMessage(c, norm) ==
  <<Lit("L442: the model's data is incomplete or malformed"),
    Lit("L443: raw output, first 2000:"),
    Raw(Slice0(c, RawPrefixLen)),
    Lit("L444: parsed data, first 500 of its JSON:"),
    Json(Slice0(Stringify(norm), JsonPrefixLen))>>

\* typeof v
TypeOf(v) ==
  CASE v.t = "undef" -> "undefined"
    [] v.t = "bool" -> "boolean"
    [] v.t \in {"num", "inf", "nan"} -> "number"
    [] v.t = "str" -> "string"
    [] OTHER -> "object"

\* v?.length: -1 stands for undefined
LengthOf(v) ==
  IF v.t = "arr" THEN Len(v.kids) ELSE IF v.t = "str" THEN Len(v.s) ELSE 0 - 1

LogEntry(line, text, keys, flag, n, type) ==
  [line |-> line, text |-> text, keys |-> keys, flag |-> flag, n |-> n, type |-> type]

\* lines 435-439
RejectionLog(c, parsed, norm) ==
  <<LogEntry(435, Slice0(c, LogPrefixLen), <<>>, FALSE, 0, ""),
    LogEntry(436, <<>>, ObjectKeys(parsed), FALSE, 0, ""),
    LogEntry(437, <<>>, ObjectKeys(norm), FALSE, 0, ""),
    LogEntry(438, <<>>, <<>>, IsArray(Get(norm, K_chartData)),
             LengthOf(Get(norm, K_chartData)), ""),
    LogEntry(439, <<>>, <<>>, IsArray(Get(Get(norm, K_analysis), K_bazi)), 0,
             TypeOf(Get(norm, K_analysis)))>>

(***************************************************************************)
(* SpecScan: findBalancedJSON run one loop iteration at a time.            *)
(***************************************************************************)
ScanAlphabet == {"{", "}", "[", "]", "\"", "'", "\\"}
\* longer texts with an escaped quote and a brace inside a literal
ScanExtra ==
  { <<"{", "\"", "\\", "\"", "}", "\"", "}">>,
    <<"[", "'", "\\", "'", "]", "'", "]", "]">>,
    <<"{", "\"", "}", "\"", "[", "]", "}", "}">> }
ScanInputs == TextsUpTo(ScanAlphabet, MaxScanLen) \cup ScanExtra

ScanIdle ==
  /\ i = 0 /\ stack = <<>> /\ inString = FALSE /\ stringChar = ""
  /\ escaped = FALSE /\ block = NoBlock
RepairIdle == once = <<>> /\ twice = <<>>
PipeIdle ==
  /\ ran = <<>> /\ tried = <<>>
  /\ parsedData = JUndef /\ normalized = JUndef /\ valid = FALSE
  /\ returned = NotReturned /\ error = <<>> /\ console = <<>>

InitScan ==
  /\ content \in ScanInputs
  /\ pc = "start"
  /\ ScanIdle
  /\ RepairIdle
  /\ PipeIdle

\* lines 49-57: no text or no opening bracket
ScanNothing ==
  /\ pc = "start"
  /\ (Len(content) = 0 \/ StartIdx(content) = 0)
  /\ pc' = "done"
  /\ UNCHANGED <<content, scanVars, repairVars, parseVars, pipeVars>>

\* lines 57-64: the loop is entered at the first opening bracket
ScanBegin ==
  /\ pc = "start"
  /\ Len(content) > 0 /\ StartIdx(content) # 0
  /\ i' = StartIdx(content)
  /\ stack' = ScanInit.stack
  /\ inString' = ScanInit.inString
  /\ stringChar' = ScanInit.stringChar
  /\ escaped' = ScanInit.escaped
  /\ pc' = "scan"
  /\ UNCHANGED <<content, block, repairVars, parseVars, pipeVars>>

\* lines 64-96: one iteration
ScanChar ==
  /\ pc = "scan"
  /\ i <= Len(content)
  /\ LET nx == ScanStep([stack |-> stack, inString |-> inString,
                         stringChar |-> stringChar, escaped |-> escaped,
                         found |-> FALSE, to |-> 0], content[i])
     IN /\ stack' = nx.stack
        /\ inString' = nx.inString
        /\ stringChar' = nx.stringChar
        /\ escaped' = nx.escaped
        /\ IF nx.found
           THEN /\ block' = [found |-> TRUE,
                             text |-> SubSeq(content, StartIdx(content), i),
                             from |-> StartIdx(content), to |-> i]
                /\ pc' = "done"
                /\ i' = i
           ELSE /\ block' = block
                /\ pc' = "scan"
                /\ i' = i + 1
  /\ UNCHANGED <<content, repairVars, parseVars, pipeVars>>

\* line 98: the text ended inside the loop
ScanExhausted ==
  /\ pc = "scan"
  /\ i > Len(content)
  /\ pc' = "done"
  /\ UNCHANGED <<content, scanVars, repairVars, parseVars, pipeVars>>

NextScan == ScanNothing \/ ScanBegin \/ ScanChar \/ ScanExhausted

SpecScan == InitScan /\ [][NextScan]_vars

(***************************************************************************)
(* SpecRepair: removeTrailingCommas applied once and then again.           *)
(***************************************************************************)
RepairAlphabet == {",", "}", "]", " ", "1"}
RepairInputs == TextsUpTo(RepairAlphabet, MaxRepairLen)

InitRepair ==
  /\ content \in RepairInputs
  /\ pc = "start"
  /\ ScanIdle
  /\ RepairIdle
  /\ PipeIdle

RepairOnce ==
  /\ pc = "start"
  /\ once' = removeTrailingCommas(content)
  /\ pc' = "once"
  /\ UNCHANGED <<content, scanVars, twice, parseVars, pipeVars>>

RepairTwice ==
  /\ pc = "once"
  /\ twice' = removeTrailingCommas(once)
  /\ pc' = "twice"
  /\ UNCHANGED <<content, scanVars, once, parseVars, pipeVars>>

NextRepair == RepairOnce \/ RepairTwice

SpecRepair == InitRepair /\ [][NextRepair]_vars

(***************************************************************************)
(* The replies the pipeline is run on.                                     *)
(***************************************************************************)
\* {"chartData":[{"age":1,"year":1990,"ganZhi":"x","open":50,"close":55,"high":60,"low":45,"score":6,"reason":"ok"}],"analysis":{"bazi":["a","b","c","d"],"summary":"s","summaryScore":6}}
D_Canonical ==
    <<"{", "\"", "c", "h", "a", "r", "t", "D", "a", "t", "a", "\"", ":",
      "[", "{", "\"", "a", "g", "e", "\"", ":", "1", ",", "\"", "y", "e",
      "a", "r", "\"", ":", "1", "9", "9", "0", ",", "\"", "g", "a", "n",
      "Z", "h", "i", "\"", ":", "\"", "x", "\"", ",", "\"", "o", "p", "e",
      "n", "\"", ":", "5", "0", ",", "\"", "c", "l", "o", "s", "e", "\"",
      ":", "5", "5", ",", "\"", "h", "i", "g", "h", "\"", ":", "6", "0",
      ",", "\"", "l", "o", "w", "\"", ":", "4", "5", ",", "\"", "s", "c",
      "o", "r", "e", "\"", ":", "6", ",", "\"", "r", "e", "a", "s", "o",
      "n", "\"", ":", "\"", "o", "k", "\"", "}", "]", ",", "\"", "a", "n",
      "a", "l", "y", "s", "i", "s", "\"", ":", "{", "\"", "b", "a", "z",
      "i", "\"", ":", "[", "\"", "a", "\"", ",", "\"", "b", "\"", ",",
      "\"", "c", "\"", ",", "\"", "d", "\"", "]", ",", "\"", "s", "u", "m",
      "m", "a", "r", "y", "\"", ":", "\"", "s", "\"", ",", "\"", "s", "u",
      "m", "m", "a", "r", "y", "S", "c", "o", "r", "e", "\"", ":", "6",
      "}", "}">>
\* (the backquote is written "U+0060")
\* Here it is: ###JSON_START### ```json {"chartData":[{"age":1,"year":1990,"ganZhi":"x","open":50,"close":55,"high":60,"low":45,"score":6,"reason":"ok"}],"analysis":{"bazi":["a","b","c","d"],"summary":"s","summaryScore":6}} ``` ###JSON_END### Bye.
D_Fenced ==
    <<"H", "e", "r", "e", " ", "i", "t", " ", "i", "s", ":", " ", "#", "#",
      "#", "J", "S", "O", "N", "_", "S", "T", "A", "R", "T", "#", "#", "#",
      " ", "U+0060", "U+0060", "U+0060", "j", "s", "o", "n", " ", "{", "\"", "c", "h",
      "a", "r", "t", "D", "a", "t", "a", "\"", ":", "[", "{", "\"", "a",
      "g", "e", "\"", ":", "1", ",", "\"", "y", "e", "a", "r", "\"", ":",
      "1", "9", "9", "0", ",", "\"", "g", "a", "n", "Z", "h", "i", "\"",
      ":", "\"", "x", "\"", ",", "\"", "o", "p", "e", "n", "\"", ":", "5",
      "0", ",", "\"", "c", "l", "o", "s", "e", "\"", ":", "5", "5", ",",
      "\"", "h", "i", "g", "h", "\"", ":", "6", "0", ",", "\"", "l", "o",
      "w", "\"", ":", "4", "5", ",", "\"", "s", "c", "o", "r", "e", "\"",
      ":", "6", ",", "\"", "r", "e", "a", "s", "o", "n", "\"", ":", "\"",
      "o", "k", "\"", "}", "]", ",", "\"", "a", "n", "a", "l", "y", "s",
      "i", "s", "\"", ":", "{", "\"", "b", "a", "z", "i", "\"", ":", "[",
      "\"", "a", "\"", ",", "\"", "b", "\"", ",", "\"", "c", "\"", ",",
      "\"", "d", "\"", "]", ",", "\"", "s", "u", "m", "m", "a", "r", "y",
      "\"", ":", "\"", "s", "\"", ",", "\"", "s", "u", "m", "m", "a", "r",
      "y", "S", "c", "o", "r", "e", "\"", ":", "6", "}", "}", " ", "U+0060",
      "U+0060", "U+0060", " ", "#", "#", "#", "J", "S", "O", "N", "_", "E", "N", "D",
      "#", "#", "#", " ", "B", "y", "e", ".">>
\* x ###JSON_START###\n{"chartData":[{"age":1}],"analysis":{"bazi":["a","b","c","d"]},}\n###JSON_END### y
D_Marked ==
    <<"x", " ", "#", "#", "#", "J", "S", "O", "N", "_", "S", "T", "A", "R",
      "T", "#", "#", "#", "\n", "{", "\"", "c", "h", "a", "r", "t", "D",
      "a", "t", "a", "\"", ":", "[", "{", "\"", "a", "g", "e", "\"", ":",
      "1", "}", "]", ",", "\"", "a", "n", "a", "l", "y", "s", "i", "s",
      "\"", ":", "{", "\"", "b", "a", "z", "i", "\"", ":", "[", "\"", "a",
      "\"", ",", "\"", "b", "\"", ",", "\"", "c", "\"", ",", "\"", "d",
      "\"", "]", "}", ",", "}", "\n", "#", "#", "#", "J", "S", "O", "N",
      "_", "E", "N", "D", "#", "#", "#", " ", "y">>
\* {"chartData":[],"chartPoints":[{"age":1}],"analysis":{"bazi":["a","b","c","d"]}}
D_BothCharts ==
    <<"{", "\"", "c", "h", "a", "r", "t", "D", "a", "t", "a", "\"", ":",
      "[", "]", ",", "\"", "c", "h", "a", "r", "t", "P", "o", "i", "n",
      "t", "s", "\"", ":", "[", "{", "\"", "a", "g", "e", "\"", ":", "1",
      "}", "]", ",", "\"", "a", "n", "a", "l", "y", "s", "i", "s", "\"",
      ":", "{", "\"", "b", "a", "z", "i", "\"", ":", "[", "\"", "a", "\"",
      ",", "\"", "b", "\"", ",", "\"", "c", "\"", ",", "\"", "d", "\"",
      "]", "}", "}">>
\* {"chartData":"abc","chartPoints":[{}],"analysis":{"bazi":["a","b","c","d"]}}
D_TextChart ==
    <<"{", "\"", "c", "h", "a", "r", "t", "D", "a", "t", "a", "\"", ":",
      "\"", "a", "b", "c", "\"", ",", "\"", "c", "h", "a", "r", "t", "P",
      "o", "i", "n", "t", "s", "\"", ":", "[", "{", "}", "]", ",", "\"",
      "a", "n", "a", "l", "y", "s", "i", "s", "\"", ":", "{", "\"", "b",
      "a", "z", "i", "\"", ":", "[", "\"", "a", "\"", ",", "\"", "b", "\"",
      ",", "\"", "c", "\"", ",", "\"", "d", "\"", "]", "}", "}">>
\* {"chartData":[],"analysis":{"bazi":["a","b","c","d"]}}
D_EmptyChart ==
    <<"{", "\"", "c", "h", "a", "r", "t", "D", "a", "t", "a", "\"", ":",
      "[", "]", ",", "\"", "a", "n", "a", "l", "y", "s", "i", "s", "\"",
      ":", "{", "\"", "b", "a", "z", "i", "\"", ":", "[", "\"", "a", "\"",
      ",", "\"", "b", "\"", ",", "\"", "c", "\"", ",", "\"", "d", "\"",
      "]", "}", "}">>
\* {"chartData":[{"age":1}],"analysis":{}}
D_NoBazi ==
    <<"{", "\"", "c", "h", "a", "r", "t", "D", "a", "t", "a", "\"", ":",
      "[", "{", "\"", "a", "g", "e", "\"", ":", "1", "}", "]", ",", "\"",
      "a", "n", "a", "l", "y", "s", "i", "s", "\"", ":", "{", "}", "}">>
\* {"chartData":[{"age":1}],"chartPoints":"x","analysis":{"bazi":["a","b","c","d"]}}
D_TextPoints ==
    <<"{", "\"", "c", "h", "a", "r", "t", "D", "a", "t", "a", "\"", ":",
      "[", "{", "\"", "a", "g", "e", "\"", ":", "1", "}", "]", ",", "\"",
      "c", "h", "a", "r", "t", "P", "o", "i", "n", "t", "s", "\"", ":",
      "\"", "x", "\"", ",", "\"", "a", "n", "a", "l", "y", "s", "i", "s",
      "\"", ":", "{", "\"", "b", "a", "z", "i", "\"", ":", "[", "\"", "a",
      "\"", ",", "\"", "b", "\"", ",", "\"", "c", "\"", ",", "\"", "d",
      "\"", "]", "}", "}">>
\* {'chartData':[{'age':1}],'analysis':{'bazi':['a','b','c','d']}}
D_SingleQuoted ==
    <<"{", "'", "c", "h", "a", "r", "t", "D", "a", "t", "a", "'", ":", "[",
      "{", "'", "a", "g", "e", "'", ":", "1", "}", "]", ",", "'", "a", "n",
      "a", "l", "y", "s", "i", "s", "'", ":", "{", "'", "b", "a", "z", "i",
      "'", ":", "[", "'", "a", "'", ",", "'", "b", "'", ",", "'", "c", "'",
      ",", "'", "d", "'", "]", "}", "}">>
\* ok {"result":{"points":[{"open":"50","high":"abc"}]},"analysis":{"bazi":"a, b c,d"}} done
D_Alias ==
    <<"o", "k", " ", "{", "\"", "r", "e", "s", "u", "l", "t", "\"", ":",
      "{", "\"", "p", "o", "i", "n", "t", "s", "\"", ":", "[", "{", "\"",
      "o", "p", "e", "n", "\"", ":", "\"", "5", "0", "\"", ",", "\"", "h",
      "i", "g", "h", "\"", ":", "\"", "a", "b", "c", "\"", "}", "]", "}",
      ",", "\"", "a", "n", "a", "l", "y", "s", "i", "s", "\"", ":", "{",
      "\"", "b", "a", "z", "i", "\"", ":", "\"", "a", ",", " ", "b", " ",
      "c", ",", "d", "\"", "}", "}", " ", "d", "o", "n", "e">>
\* ###JSON_END### ###JSON_START### 1
D_EndBeforeStart ==
    <<"#", "#", "#", "J", "S", "O", "N", "_", "E", "N", "D", "#", "#", "#",
      " ", "#", "#", "#", "J", "S", "O", "N", "_", "S", "T", "A", "R", "T",
      "#", "#", "#", " ", "1">>
\* ###JSON_START###1###JSON_START###2###JSON_END###
D_TwoStarts ==
    <<"#", "#", "#", "J", "S", "O", "N", "_", "S", "T", "A", "R", "T", "#",
      "#", "#", "1", "#", "#", "#", "J", "S", "O", "N", "_", "S", "T", "A",
      "R", "T", "#", "#", "#", "2", "#", "#", "#", "J", "S", "O", "N", "_",
      "E", "N", "D", "#", "#", "#">>
\* [1] ###JSON_START###[2]###JSON_END###
D_BlockBeforeMarkers ==
    <<"[", "1", "]", " ", "#", "#", "#", "J", "S", "O", "N", "_", "S", "T",
      "A", "R", "T", "#", "#", "#", "[", "2", "]", "#", "#", "#", "J", "S",
      "O", "N", "_", "E", "N", "D", "#", "#", "#">>
\* ###JSON_START###[1]
D_NoEnd ==
    <<"#", "#", "#", "J", "S", "O", "N", "_", "S", "T", "A", "R", "T", "#",
      "#", "#", "[", "1", "]">>
\* ###JSON_START### [1 ###JSON_END### [2]
D_MarkedBroken ==
    <<"#", "#", "#", "J", "S", "O", "N", "_", "S", "T", "A", "R", "T", "#",
      "#", "#", " ", "[", "1", " ", "#", "#", "#", "J", "S", "O", "N", "_",
      "E", "N", "D", "#", "#", "#", " ", "[", "2", "]">>
\* ###JSON_START######JSON_END###{"a":[1,]}
D_EmptyMarked ==
    <<"#", "#", "#", "J", "S", "O", "N", "_", "S", "T", "A", "R", "T", "#",
      "#", "#", "#", "#", "#", "J", "S", "O", "N", "_", "E", "N", "D", "#",
      "#", "#", "{", "\"", "a", "\"", ":", "[", "1", ",", "]", "}">>
\* {[1]}
D_ArrayInBraces ==
    <<"{", "[", "1", "]", "}">>
\* {"a":1} {"b":2}
D_TwoObjects ==
    <<"{", "\"", "a", "\"", ":", "1", "}", " ", "{", "\"", "b", "\"", ":",
      "2", "}">>
\* x {"a":"}"} y
D_QuotedBrace ==
    <<"x", " ", "{", "\"", "a", "\"", ":", "\"", "}", "\"", "}", " ", "y">>
\* 5
D_Number ==
    <<"5">>
\*  null 
D_Null ==
    <<" ", "n", "u", "l", "l", " ">>
\* "abc"
D_Text ==
    <<"\"", "a", "b", "c", "\"">>

\* {"chartData":[{}],"analysis":{"bazi":["a","b","c","d"]}}
D_BareItem ==
    <<"{", "\"", "c", "h", "a", "r", "t", "D", "a", "t", "a", "\"", ":", "[",
      "{", "}", "]", ",", "\"", "a", "n", "a", "l", "y", "s", "i", "s", "\"",
      ":", "{", "\"", "b", "a", "z", "i", "\"", ":", "[", "\"", "a", "\"",
      ",", "\"", "b", "\"", ",", "\"", "c", "\"", ",", "\"", "d", "\"", "]",
      "}", "}">>
\* {"chartData":[{"age":"Infinity","year":"x"}],"analysis":{"bazi":["a","b","c","d"]}}
D_InfinityItem ==
    <<"{", "\"", "c", "h", "a", "r", "t", "D", "a", "t", "a", "\"", ":", "[",
      "{", "\"", "a", "g", "e", "\"", ":", "\"", "I", "n", "f", "i", "n", "i",
      "t", "y", "\"", ",", "\"", "y", "e", "a", "r", "\"", ":", "\"", "x",
      "\"", "}", "]", ",", "\"", "a", "n", "a", "l", "y", "s", "i", "s", "\"",
      ":", "{", "\"", "b", "a", "z", "i", "\"", ":", "[", "\"", "a", "\"",
      ",", "\"", "b", "\"", ",", "\"", "c", "\"", ",", "\"", "d", "\"", "]",
      "}", "}">>

\* {"chartData":null,"result":{"kline":[{"age":1}]}}
D_NullChart ==
    <<"{", "\"", "c", "h", "a", "r", "t", "D", "a", "t", "a", "\"", ":", "n",
      "u", "l", "l", ",", "\"", "r", "e", "s", "u", "l", "t", "\"", ":", "{",
      "\"", "k", "l", "i", "n", "e", "\"", ":", "[", "{", "\"", "a", "g", "e",
      "\"", ":", "1", "}", "]", "}", "}">>
\* {"chart":0,"result":{"chart_data":[{"age":2}]}}
D_ZeroChart ==
    <<"{", "\"", "c", "h", "a", "r", "t", "\"", ":", "0", ",", "\"", "r", "e",
      "s", "u", "l", "t", "\"", ":", "{", "\"", "c", "h", "a", "r", "t", "_",
      "d", "a", "t", "a", "\"", ":", "[", "{", "\"", "a", "g", "e", "\"", ":",
      "2", "}", "]", "}", "}">>
\* {"result":{"chartPoints":[{"age":3}]}}
D_NestedOnly ==
    <<"{", "\"", "r", "e", "s", "u", "l", "t", "\"", ":", "{", "\"", "c", "h",
      "a", "r", "t", "P", "o", "i", "n", "t", "s", "\"", ":", "[", "{", "\"",
      "a", "g", "e", "\"", ":", "3", "}", "]", "}", "}">>

\* {"chartData":[{"open":"50","high":"abc"},{"close":"9","low":"zz"},{"high":"x"}]}
D_Fallback ==
    <<"{", "\"", "c", "h", "a", "r", "t", "D", "a", "t", "a", "\"", ":", "[",
      "{", "\"", "o", "p", "e", "n", "\"", ":", "\"", "5", "0", "\"", ",",
      "\"", "h", "i", "g", "h", "\"", ":", "\"", "a", "b", "c", "\"", "}",
      ",", "{", "\"", "c", "l", "o", "s", "e", "\"", ":", "\"", "9", "\"",
      ",", "\"", "l", "o", "w", "\"", ":", "\"", "z", "z", "\"", "}", ",",
      "{", "\"", "h", "i", "g", "h", "\"", ":", "\"", "x", "\"", "}", "]", "}">>
\* {"chartData":[{"open":0,"close":7,"high":"abc","low":"x"}]}
D_ZeroOpen ==
    <<"{", "\"", "c", "h", "a", "r", "t", "D", "a", "t", "a", "\"", ":", "[",
      "{", "\"", "o", "p", "e", "n", "\"", ":", "0", ",", "\"", "c", "l", "o",
      "s", "e", "\"", ":", "7", ",", "\"", "h", "i", "g", "h", "\"", ":",
      "\"", "a", "b", "c", "\"", ",", "\"", "l", "o", "w", "\"", ":", "\"",
      "x", "\"", "}", "]", "}">>

\* so: ###JSON_START### {"a":[1,2]} ###JSON_END### ok
D_MarkedValid ==
    <<"s", "o", ":", " ", "#", "#", "#", "J", "S", "O", "N", "_", "S", "T",
      "A", "R", "T", "#", "#", "#", " ", "{", "\"", "a", "\"", ":", "[", "1",
      ",", "2", "]", "}", " ", "#", "#", "#", "J", "S", "O", "N", "_", "E",
      "N", "D", "#", "#", "#", " ", "o", "k">>
\* so: ###JSON_START### {"a":",}"} ###JSON_END### ok
D_MarkedComma ==
    <<"s", "o", ":", " ", "#", "#", "#", "J", "S", "O", "N", "_", "S", "T",
      "A", "R", "T", "#", "#", "#", " ", "{", "\"", "a", "\"", ":", "\"", ",",
      "}", "\"", "}", " ", "#", "#", "#", "J", "S", "O", "N", "_", "E", "N",
      "D", "#", "#", "#", " ", "o", "k">>

\* more than RawPrefixLen characters that no strategy can parse
D_LongJunk == [j \in 1..(RawPrefixLen + 1) |-> "x"]
\* a reply that parses, is rejected, and is longer than RawPrefixLen
D_LongRejected == <<"{", "}">> \o [j \in 1..RawPrefixLen |-> " "]
\* two replies that agree on their first RawPrefixLen characters and are
\* rejected: {"points":[]} and {"points":[],"chartData":[]} after blanks
D_LongPoints ==
    [j \in 1..RawPrefixLen |-> " "] \o
    <<"{", "\"", "p", "o", "i", "n", "t", "s", "\"", ":", "[", "]", "}">>
D_LongBoth ==
    [j \in 1..RawPrefixLen |-> " "] \o
    <<"{", "\"", "p", "o", "i", "n", "t", "s", "\"", ":", "[", "]", ",", "\"",
      "c", "h", "a", "r", "t", "D", "a", "t", "a", "\"", ":", "[", "]", "}">>

Documents ==
  { D_Canonical,
    D_Fenced,
    D_Marked,
    D_BothCharts,
    D_TextChart,
    D_EmptyChart,
    D_NoBazi,
    D_TextPoints,
    D_SingleQuoted,
    D_Alias,
    D_EndBeforeStart,
    D_TwoStarts,
    D_BlockBeforeMarkers,
    D_NoEnd,
    D_MarkedBroken,
    D_EmptyMarked,
    D_ArrayInBraces,
    D_TwoObjects,
    D_QuotedBrace,
    D_Number,
    D_Null,
    D_Text,
    D_BareItem, D_InfinityItem,
    D_NullChart, D_ZeroChart, D_NestedOnly,
    D_Fallback, D_ZeroOpen,
    D_MarkedValid, D_MarkedComma,
    D_LongJunk, D_LongRejected, D_LongPoints, D_LongBoth }

ParseAlphabet == {"[", "]", "{", "}", ",", "'", "1"}
Contents == TextsUpTo(ParseAlphabet, MaxTextLen) \cup Documents

(***************************************************************************)
(* Spec: generateLifeAnalysis from the reply on, one step per strategy of  *)
(* safeParseModelJson, then normalizeParsedData, then the validator.       *)
(***************************************************************************)
Init ==
  /\ content \in Contents
  /\ pc = "call"
  /\ ScanIdle
  /\ RepairIdle
  /\ PipeIdle

\* line 456: every error is logged before it is rethrown
ErrorLogged == LogEntry(456, <<>>, <<>>, FALSE, 0, "Error")

\* lines 417-419, then 455-457
EmptyReply ==
  /\ pc = "call"
  /\ Len(content) = 0
  /\ error' = EmptyReplyMessage
  /\ console' = Append(console, ErrorLogged)
  /\ pc' = "threw"
  /\ UNCHANGED <<content, scanVars, repairVars, parseVars,
                 parsedData, normalized, valid, returned>>

\* lines 421-424: safeParseModelJson is called
BeginParse ==
  /\ pc = "call"
  /\ Len(content) > 0
  /\ pc' = StrategyOrder[1]
  /\ UNCHANGED <<content, scanVars, repairVars, parseVars, pipeVars>>

\* the strategy that follows st, "exhausted" after the last
After(st) ==
  LET k == CHOOSE j \in 1..Len(StrategyOrder) : StrategyOrder[j] = st
  IN IF k < Len(StrategyOrder) THEN StrategyOrder[k + 1] ELSE "exhausted"

\* one strategy, r being what it leaves: return on the first JSON.parse that
\* succeeds, else go on
Attempt(st, r) ==
  /\ pc = st
  /\ ran' = Append(ran, st)
  /\ tried' = tried \o r.tried
  /\ IF r.ok
     THEN /\ parsedData' = r.v
          /\ pc' = "parsed"
     ELSE /\ parsedData' = parsedData
          /\ pc' = After(st)
  /\ UNCHANGED <<content, scanVars, repairVars, normalized, valid, returned,
                 error, console>>

\* lines 124-129
Strategy1 == Attempt("s1", RunStrategy("s1", content))
\* lines 131-144
Strategy2 == Attempt("s2", RunStrategy("s2", content))
\* lines 146-160
Strategy3 == Attempt("s3", RunStrategy("s3", content))
\* lines 162-176
Strategy4 == Attempt("s4", RunStrategy("s4", content))
\* lines 177-190
Strategy5 == Attempt("s5", RunStrategy("s5", content))

\* line 193, then 425-427 and 455-457
ParseFailure ==
  /\ pc = "exhausted"
  /\ error' = ParseFailureMessage(content)
  /\ console' = Append(console, ErrorLogged)
  /\ pc' = "threw"
  /\ UNCHANGED <<content, scanVars, repairVars, parseVars,
                 parsedData, normalized, valid, returned>>

\* line 430, norm being what normalizeParsedData returns; data is left as
\* the call leaves it
Normalized(norm) ==
  /\ normalized' = norm
  /\ parsedData' = RawAfter(parsedData, norm)

Normalize ==
  /\ pc = "parsed"
  /\ Normalized(normalizeParsedData(parsedData))
  /\ pc' = "normalized"
  /\ UNCHANGED <<content, scanVars, repairVars, parseVars,
                 valid, returned, error, console>>

\* lines 433, 448-454
Accept ==
  /\ pc = "normalized"
  /\ validateLifeDestinyData(normalized)
  /\ valid' = TRUE
  /\ returned' = [done |-> TRUE,
                  chartData |-> Get(normalized, K_chartData),
                  analysis |-> Get(normalized, K_analysis)]
  /\ pc' = "returned"
  /\ UNCHANGED <<content, scanVars, repairVars, parseVars,
                 parsedData, normalized, error, console>>

\* lines 433-446, then 455-457
Reject ==
  /\ pc = "normalized"
  /\ ~validateLifeDestinyData(normalized)
  /\ valid' = FALSE
  /\ console' = console \o RejectionLog(content, parsedData, normalized)
                        \o <<ErrorLogged>>
  /\ error' = RejectionMessage(content, normalized)
  /\ pc' = "rejected"
  /\ UNCHANGED <<content, scanVars, repairVars, parseVars,
                 parsedData, normalized, returned>>

Next ==
  \/ EmptyReply \/ BeginParse
  \/ Strategy1 \/ Strategy2 \/ Strategy3 \/ Strategy4 \/ Strategy5
  \/ ParseFailure \/ Normalize \/ Accept \/ Reject

Spec == Init /\ [][Next]_vars

(***************************************************************************)
(* Reference notions the claims about findBalancedJSON are stated with.    *)
(***************************************************************************)
Brackets == {"{", "}", "[", "]"}
\* the opening bracket a closing bracket stands for
Opener(ch) == IF ch = "}" THEN "{" ELSE "["
NoLiteral == [lit |-> FALSE, q |-> "", esc |-> FALSE]

\* the literal state in which the character at index k is read, for a scan
\* that begins at index from: a literal is opened by " or ' and closed by the
\* same quote unless that quote follows an unescaped backslash
RECURSIVE LitState(_, _, _)
LitState(s, from, k) ==
  IF k <= from THEN NoLiteral
  ELSE LET p == LitState(s, from, k - 1)
           c == s[k - 1]
       IN IF p.lit
          THEN IF p.esc THEN [p EXCEPT !.esc = FALSE]
               ELSE IF c = "\\" THEN [p EXCEPT !.esc = TRUE]
               ELSE IF c = p.q THEN NoLiteral
               ELSE p
          ELSE IF c \in {"\"", "'"} THEN [lit |-> TRUE, q |-> c, esc |-> FALSE]
               ELSE p

InLiteral(s, from, k) == LitState(s, from, k).lit

\* the earliest index of an opening bracket, 0 when there is none
EarliestOpen(s) ==
  IF \E k \in 1..Len(s) : s[k] \in {"{", "["}
  THEN CHOOSE k \in 1..Len(s) :
         s[k] \in {"{", "["} /\ \A j \in 1..(k - 1) : s[j] \notin {"{", "["}
  ELSE 0

\* brackets opened and not yet closed after reading from..k, closers popping
\* the most recent opener whatever its kind; <<"!">> once a closer found
\* nothing to close
RECURSIVE OpenAfter(_, _, _)
OpenAfter(s, from, k) ==
  IF k < from THEN <<>>
  ELSE LET p == OpenAfter(s, from, k - 1)
       IN IF p = <<"!">> \/ InLiteral(s, from, k) \/ s[k] \notin Brackets THEN p
          ELSE IF s[k] \in {"{", "["} THEN Append(p, s[k])
          ELSE IF Len(p) = 0 THEN <<"!">>
          ELSE SubSeq(p, 1, Len(p) - 1)

\* every closer outside a literal in from..to closes an opener of its own kind
RECURSIVE KindsMatch(_, _, _)
KindsMatch(s, from, k) ==
  IF k < from THEN TRUE
  ELSE /\ KindsMatch(s, from, k - 1)
       /\ (s[k] \in {"}", "]"} /\ ~InLiteral(s, from, k))
            => LET p == OpenAfter(s, from, k - 1)
               IN Len(p) > 0 /\ p # <<"!">> /\ p[Len(p)] = Opener(s[k])

\* all brackets of from..to are closed at to and not before
ClosedExactlyAt(s, from, to) ==
  /\ OpenAfter(s, from, to) = <<>>
  /\ \A k \in from..(to - 1) : OpenAfter(s, from, k) \notin {<<>>, <<"!">>}

(***************************************************************************)
(* C9: inside a string literal the scan of findBalancedJSON leaves the     *)
(* bracket stack alone whatever the character is, a quote that follows an  *)
(* unescaped backslash does not close the literal (inString follows the    *)
(* reference literal state), and a returned span never ends at a bracket   *)
(* inside a literal: it extends past every brace the scan read inside one. *)
(***************************************************************************)
C9_LiteralSafety ==
  /\ [][(pc = "scan" /\ i <= Len(content)
          /\ InLiteral(content, StartIdx(content), i))
        => stack' = stack]_vars
  /\ [](pc = "scan" /\ i <= Len(content)
          => /\ inString = InLiteral(content, StartIdx(content), i)
             /\ escaped = LitState(content, StartIdx(content), i).esc)
  /\ [](pc = "done" /\ block.found
          => \A k \in block.from..block.to :
               InLiteral(content, block.from, k) => k < block.to)

\* a span was returned that holds a closing brace inside a literal and an
\* escaped quote inside a literal
C9_Witness ==
  /\ pc = "done" /\ block.found
  /\ \E k \in block.from..block.to :
       content[k] = "}" /\ InLiteral(content, block.from, k)
  /\ \E k \in block.from..block.to :
       /\ content[k] = "\""
       /\ LitState(content, block.from, k).esc
       /\ InLiteral(content, block.from, k + 1)

(***************************************************************************)
(* C10 as stated: findBalancedJSON returns none, or a span that starts at  *)
(* the earliest opening bracket in which every closing bracket outside a   *)
(* literal closes the most recent unclosed opening bracket of the same     *)
(* kind and all brackets are closed exactly at the last character; a text  *)
(* that ends with a bracket still open gives none.                         *)
(***************************************************************************)
C10_BalancedSameKind ==
  pc = "done" =>
    /\ block.found =>
         /\ block.from = EarliestOpen(content)
         /\ block.text = SubSeq(content, block.from, block.to)
         /\ KindsMatch(content, block.from, block.to)
         /\ ClosedExactlyAt(content, block.from, block.to)
    /\ (EarliestOpen(content) # 0
        /\ \A k \in EarliestOpen(content)..Len(content) :
             OpenAfter(content, EarliestOpen(content), k) # <<>>)
         => ~block.found

(***************************************************************************)
(* C10 amended: the same, with a closing bracket closing the most recent   *)
(* unclosed opening bracket whatever its kind ('{' may be closed by ']').  *)
(***************************************************************************)
C10_BalancedAnyKind ==
  pc = "done" =>
    /\ block.found =>
         /\ block.from = EarliestOpen(content)
         /\ block.text = SubSeq(content, block.from, block.to)
         /\ ClosedExactlyAt(content, block.from, block.to)
    /\ (EarliestOpen(content) # 0
        /\ \A k \in EarliestOpen(content)..Len(content) :
             OpenAfter(content, EarliestOpen(content), k) # <<>>)
         => ~block.found
    /\ EarliestOpen(content) = 0 => ~block.found

\* a span closed by a bracket of the other kind was returned, after text
\* that is not part of it
C10_Witness ==
  /\ pc = "done" /\ block.found
  /\ block.from > 1
  /\ Len(block.text) >= 3
  /\ ~KindsMatch(content, block.from, block.to)

\* a text ended with a bracket still open and none was returned
C10_WitnessUnclosed ==
  pc = "done" /\ ~block.found /\ EarliestOpen(content) # 0

(***************************************************************************)
(* C7 as stated: removeTrailingCommas applied twice gives what it gives    *)
(* applied once.                                                           *)
(***************************************************************************)
C7_Idempotent == pc = "twice" => twice = once

(***************************************************************************)
(* Notions the claims about generateLifeAnalysis are stated with.          *)
(***************************************************************************)
\* the positions at which safeParseModelJson has returned a value
Parsed == {"parsed", "normalized", "returned", "rejected"}
\* the order of the strategies as the specification lists them
FixedOrder == <<"s1", "s2", "s3", "s4", "s5">>

NonEmptySequence(v) == v.t = "arr" /\ Len(v.kids) > 0
IsMapping(v) == v.t = "obj"
\* a non-empty chart, an analysis that is a mapping and at least four bazi
WellFormed(chart, analysis) ==
  /\ NonEmptySequence(chart)
  /\ IsMapping(analysis)
  /\ Get(analysis, K_bazi).t = "arr"
  /\ Len(Get(analysis, K_bazi).kids) >= 4

\* C1 as stated: whatever generateLifeAnalysis returns has a non-empty
\* sequence as chartData, a mapping as analysis and at least four bazi.
C1_ReturnedWellFormed ==
  pc = "returned" => WellFormed(returned.chartData, returned.analysis)

\* the text extracted by a strategy, when there is one, was handed to
\* JSON.parse without its trailing commas
TriedRepaired(found, text) ==
  found => \E j \in 1..Len(tried) : tried[j] = removeTrailingCommas(text)

\* C2: the strategies run in the order s1..s5 and stop at the first
\* JSON.parse that succeeds, whose value is the one returned; the first text
\* parsed is the reply itself, unmodified, and a reply that is valid JSON is
\* returned by the first strategy alone.
C2_FixedOrder ==
  /\ ran = SubSeq(FixedOrder, 1, Len(ran))
  /\ pc \in {"s1", "s2", "s3", "s4", "s5"} => pc = FixedOrder[Len(ran) + 1]
  /\ pc = "exhausted" => ran = FixedOrder
  /\ \A j \in 1..Len(tried) :
       JSONparse(tried[j]).ok <=> (j = Len(tried) /\ pc \in Parsed)
  /\ pc \in Parsed => Len(tried) > 0
  /\ pc = "parsed" => parsedData = JSONparse(tried[Len(tried)]).v
  /\ Len(ran) > 0 => tried[1] = content
  /\ Len(ran) >= 3 =>
       TriedRepaired(findBalancedJSON(content).found, findBalancedJSON(content).text)
  /\ Len(ran) >= 4 =>
       TriedRepaired(GreedyMatch(content, "{", "}").applies,
                     GreedyMatch(content, "{", "}").text)
  /\ Len(ran) >= 5 =>
       TriedRepaired(GreedyMatch(content, "[", "]").applies,
                     GreedyMatch(content, "[", "]").text)
  /\ (Len(ran) > 0 /\ JSONparse(content).ok) =>
       ran = <<"s1">> /\ tried = <<content>> /\ pc \in Parsed

\* a reply was parsed by the third strategy, at its second attempt, after the
\* first two strategies had failed
C2_Witness ==
  pc = "parsed" /\ ran = <<"s1", "s2", "s3">> /\ Len(tried) = 3

\* C3: when all strategies have failed the call throws a message that ends
\* with the first 2000 characters of the reply (all of it when shorter);
\* nothing was parsed, normalized, validated or returned.
C3_ParseFailure ==
  /\ pc = "exhausted" =>
       parsedData = JUndef /\ normalized = JUndef /\ returned = NotReturned
  /\ (pc = "threw" /\ Len(ran) > 0) =>
       /\ ran = FixedOrder
       /\ \A j \in 1..Len(tried) : ~JSONparse(tried[j]).ok
       /\ Len(error) = 3
       /\ error[1].kind = "lit" /\ error[2].kind = "lit"
       /\ error[3] = Raw(IF Len(content) <= 2000 THEN content
                         ELSE SubSeq(content, 1, 2000))
       /\ parsedData = JUndef /\ normalized = JUndef /\ ~valid
       /\ returned = NotReturned

\* a reply of more than 2000 characters could not be parsed
C3_Witness == pc = "threw" /\ Len(ran) = 5 /\ Len(content) > 2000

\* C4 as stated: the validator accepts the normalized value exactly when its
\* chartData is a non-empty sequence, its analysis a mapping and
\* analysis.bazi a sequence of at least four.
C4_ValidatorIff ==
  pc \in {"returned", "rejected"} =>
    (valid <=> WellFormed(Get(normalized, K_chartData), Get(normalized, K_analysis)))

\* what the marker strategy hands to JSON.parse as the specification has
\* it: the text between the first start sentinel and the first end sentinel
\* after it, trimmed and without trailing commas; nothing when a sentinel is
\* missing, when no end sentinel follows the start, or when nothing lies
\* between them
SpecifiedMarkerTexts(c, a, b) ==
  IF a = 0 \/ b = 0 \/ b = a + Len(startMarker) THEN <<>>
  ELSE <<removeTrailingCommas(Trim(SubSeq(c, a + Len(startMarker), b - 1)))>>

\* the index of the first end sentinel after the start sentinel at a
EndAfter(c, a) ==
  IF a = 0 THEN 0 ELSE FindFrom(c, endMarker, a + Len(startMarker))

\* C5 as stated: the marker strategy parses the trimmed text between the
\* first start sentinel and the first end sentinel after it, and has no
\* candidate when a sentinel is absent or no end sentinel follows the start.
C5_MarkerCandidate ==
  ran = <<"s1", "s2">> =>
    tried = <<content>> \o
            SpecifiedMarkerTexts(content, FindFrom(content, startMarker, 1),
                                 EndAfter(content, FindFrom(content, startMarker, 1)))

\* reply c, whose strict parse is r, is rejected with the error of this run
\* although the top-level keys of its parsed value are not those of this run
SameErrorOtherKeys(c, r, norm) ==
  /\ r.ok
  /\ ~validateLifeDestinyData(norm)
  /\ RejectionMessage(c, norm) = error
  /\ ObjectKeys(r.v) # ObjectKeys(parsedData)

OtherRun(c, r) == SameErrorOtherKeys(c, r, normalizeParsedData(r.v))

\* C6, in the form of what it entails: the error of a rejection carries the
\* top-level keys of the parsed value (with the rest of the diagnostics), so
\* no reply whose parsed value has other keys is rejected with the same error.
C6_ErrorCarriesDiagnostics ==
  pc = "rejected" => \A c \in Documents : ~OtherRun(c, JSONparse(c))

NumericFields == {K_age, K_year, K_open, K_close, K_high, K_low, K_score}

\* C8 as stated: after normalizeParsedData each element of chartData binds
\* each of the seven numeric fields to a finite number.
C8_FiniteNumericFields ==
  (pc \in {"normalized", "returned", "rejected"}
     /\ IsArray(Get(normalized, K_chartData))) =>
    \A j \in 1..Len(Get(normalized, K_chartData).kids) :
      \A f \in NumericFields :
        Get(Get(normalized, K_chartData).kids[j], f).t = "num"

\* the value safeParseModelJson returned, as it was when it was returned
ParsedValue == JSONparse(tried[Len(tried)]).v

\* the chart as the specification resolves it: the first alias bound at the
\* top level, the first alias bound under result when none is bound at the
\* top level, null when there is none
SpecifiedChart(top, nested) ==
  IF top.t # "undef" THEN top
  ELSE IF nested.t # "undef" THEN nested
  ELSE JNull

\* normalizeParsedData(raw) with the chart resolved as the specification says
SpecifiedNormalized(raw) ==
  IF ~Truthy(raw) \/ ~IsObjectType(raw) THEN raw
  ELSE NormalizeWith(raw, SpecifiedChart(ProbeAliases(Spread(raw), 1),
                                         ProbeAliases(Get(raw, K_result), 1)))

\* C11 as stated: the normalized value is the one that results when the
\* chart is the first alias bound at the top level and the aliases under
\* result are probed only when no alias is bound at the top level.
C11_ResultOnlyWhenUnbound ==
  pc = "normalized" => normalized = SpecifiedNormalized(ParsedValue)

\* v is present and does not convert to a finite number
NotFinite(v) == v.t # "undef" /\ Number(v).t # "num"

\* the fallback of high and low as the specification has it, item being the
\* normalized element: the converted open if open is present, else the
\* converted close if close is present, else 0
SpecifiedLevel(item) ==
  IF Get(item, K_open).t # "undef" THEN Get(item, K_open)
  ELSE IF Get(item, K_close).t # "undef" THEN Get(item, K_close)
  ELSE JNum(0)

LevelFallsBack(rawItem, item, k) ==
  NotFinite(Get(rawItem, k)) => Get(item, k) = SpecifiedLevel(item)

\* the elements of the parsed chartData against those of the normalized one
LevelsFallBack(rawChart, chart) ==
  IsArray(rawChart) =>
    \A j \in 1..Len(rawChart.kids) :
      /\ LevelFallsBack(rawChart.kids[j], chart.kids[j], K_high)
      /\ LevelFallsBack(rawChart.kids[j], chart.kids[j], K_low)

\* C12 as stated: a high or low that is present and does not convert to a
\* finite number becomes the converted open if open is present, else the
\* converted close if close is present, else 0.
C12_LevelFallback ==
  pc = "normalized" =>
    LevelsFallBack(Get(ParsedValue, K_chartData), Get(normalized, K_chartData))

\* the text between the start sentinel at a and the end sentinel at b,
\* without the white space around it
Embedded(c, a, b) == Trim(SubSeq(c, a + Len(startMarker), b - 1))

\* r is the strict parse of the embedded text, whole that of the reply
ReturnsParseOf(r, whole) == (r.ok /\ ~whole.ok) => parsedData = r.v

ReturnsEmbedded(c, a, b) ==
  (a # 0 /\ b # 0) =>
    ReturnsParseOf(JSONparse(Embedded(c, a, b)), JSONparse(c))

\* C13 as stated: when the text between the sentinels is valid JSON and the
\* reply as a whole is not, safeParseModelJson returns the strict parse of
\* the text between the sentinels.
C13_EmbeddedValue ==
  pc = "parsed" =>
    ReturnsEmbedded(content, FindFrom(content, startMarker, 1),
                    EndAfter(content, FindFrom(content, startMarker, 1)))

\* C14 as stated: normalizeParsedData leaves the parsed value it is given
\* unchanged: after the call the value generateLifeAnalysis parsed, its
\* analysis mapping and analysis.bazi included, is what the parse produced.
C14_ParsedUnchanged ==
  pc \in {"normalized", "returned", "rejected"} => parsedData = ParsedValue

====
